---- MODULE Spec2Model ----
(***************************************************************************)
(* Two buffer-pool data structures:                                        *)
(*   - ExtendibleHashTable<int,int>  (extendible_hash_table.cpp / .h)      *)
(*   - LRUKReplacer                  (lru_k_replacer.cpp)                  *)
(* The two components share no state; each has its own specifications      *)
(* (SpecHash and SpecCap, SpecLRU) over the module's variables.            *)
(***************************************************************************)
EXTENDS Integers, Sequences, FiniteSets, TLC

\* ------------------------------------------------------------------ bounds
\* Small keys range over 0..MaxKey.
MaxKey == 3
\* Far keys are the multiples 1..MaxFar of 2^kMaxGlobalDepth: they agree with
\* key 0 in every bit the directory can ever use.
MaxFar == 1
\* Bucket capacities tried by the constructor.
MaxBucketSize == 2
\* The replacer is built with 1..MaxFrames frames and K in 1..MaxK; the logical
\* clock stops the calls at MaxTime ticks.
MaxFrames == 2
MaxK == 2
MaxTime == 3
\* Threads 1..MaxThreads call the replacer concurrently (SpecRace).
MaxThreads == 2

\* ------------------------------------------------------- program constants
\* static constexpr int kMaxGlobalDepth = 20;
kMaxGlobalDepth == 20

None == 0   \* "no value": Find's not-found result (values are >= 1)

VARIABLES
    \* ExtendibleHashTable fields
    global_depth_,   \* int global_depth_
    bucket_size_,    \* size_t bucket_size_
    num_buckets_,    \* int num_buckets_
    dir_,            \* std::vector<std::shared_ptr<Bucket>>, as [size, tree] (see Slot)
    heap,            \* the Bucket objects the directory's shared_ptrs own: id -> [depth_, list_]
    \* observation of the calls made so far
    ret,             \* the last call: [op, key, ok] (ok: found / removed / no overflow)
    expected,        \* key -> value of its last Insert, None after Remove / never inserted
    fresh            \* TRUE while every call so far was an Insert of a key not inserted before

VARIABLES
    \* LRUKReplacer fields
    replacer_size_,      \* size_t replacer_size_  (num_frames)
    k_,                  \* size_t k_
    max_size_,           \* size_t max_size_
    curr_size_,          \* size_t curr_size_
    current_timestamp_,  \* size_t current_timestamp_
    recorded_cnt_,       \* frame -> number of recorded accesses
    hist,                \* frame -> its access ticks, oldest first
    evictable_,          \* frame -> bool
    new_frame_,          \* std::list<frame_id_t>: frames with < k_ accesses, newest first
    new_locate_,         \* frame -> iterator into new_frame_: the frames that have one
    cache_frame_,        \* std::list<k_time>: <<frame, tick>> of frames with >= k_ accesses
    cache_locate_,       \* frame -> iterator into cache_frame_: the frames that have one
    latch_,              \* std::mutex latch_: "free" or "held"
    lret                 \* the last replacer call: [op, id, res, out, relock]

VARIABLES
    \* the replacer's callers, one per thread (they move in SpecRace only)
    pc,                  \* thread -> "idle", "locked" (past a lock_guard on latch_),
                         \*           "relock" (at Evict's lock_guard, latch_ held), "size" (in Size())
    sret                 \* the value the last Size() returned (0 - 1 before the first)

lvars == <<replacer_size_, k_, max_size_, curr_size_, current_timestamp_, recorded_cnt_,
           hist, evictable_, new_frame_, new_locate_, cache_frame_, cache_locate_,
           latch_, lret>>

hvars == <<global_depth_, bucket_size_, num_buckets_, dir_, heap, ret, expected, fresh>>

tvars == <<pc, sret>>

\* ------------------------------------------------------------- arithmetic
RECURSIVE Pow2(_)
Pow2(n) == IF n = 0 THEN 1 ELSE 2 * Pow2(n - 1)

\* std::hash<int>: the identity on the non-negative keys used here
Hash(key) == key

SmallKeys == 0 .. MaxKey
FarKeys == { f * Pow2(kMaxGlobalDepth) : f \in 1 .. MaxFar }
\* the values stored: opaque to the table, two are enough to tell an update
Values == {1, 2}

\* ------------------------------------------------------------------ Bucket
\* Bucket::Bucket(size, depth)
NewBucket(depth) == [depth_ |-> depth, list_ |-> <<>>]

\* Bucket::IsFull
IsFull(b, size) == Len(b.list_) = size

Pos(list, key) ==
    IF \E i \in 1 .. Len(list) : list[i][1] = key
    THEN CHOOSE i \in 1 .. Len(list) :
             /\ list[i][1] = key
             /\ \A j \in 1 .. i - 1 : list[j][1] # key
    ELSE 0

\* Bucket::Find: the value of the first item with this key, None if there is none
BucketFind(b, key) ==
    LET p == Pos(b.list_, key) IN IF p = 0 THEN None ELSE b.list_[p][2]

\* Bucket::Remove: erases the first item with this key
BucketRemove(b, key) ==
    LET p == Pos(b.list_, key) IN
    IF p = 0 THEN [ok |-> FALSE, b |-> b]
    ELSE [ok |-> TRUE,
          b  |-> [b EXCEPT !.list_ =
                    [i \in 1 .. Len(b.list_) - 1 |->
                        IF i < p THEN b.list_[i] ELSE b.list_[i + 1]]]]

\* Bucket::Insert: update in place, else fail when full, else append
BucketInsert(b, key, value, size) ==
    LET p == Pos(b.list_, key) IN
    IF p # 0 THEN [ok |-> TRUE, b |-> [b EXCEPT !.list_[p] = <<key, value>>]]
    ELSE IF IsFull(b, size) THEN [ok |-> FALSE, b |-> b]
    ELSE [ok |-> TRUE, b |-> [b EXCEPT !.list_ = Append(b.list_, <<key, value>>)]]

\* ------------------------------------------------------ ExtendibleHashTable
\* The directory vector.  Its 2^20 slots at the depth cap are too many to list, so
\* the vector is kept as [size |-> dir_.size(), tree |-> T], where T says which
\* bucket each slot holds by reading the slot index from its lowest bit up:
\*    [leaf |-> b]            every slot of this subtree holds bucket b
\*    [lo |-> T0, hi |-> T1]  T0 for the slots whose next bit is 0, T1 for the others
\* Every vector whose length is a power of two has exactly one such tree (Node keeps
\* it minimal), and Slot reads an element back.
IsLeaf(x) == "leaf" \in DOMAIN x
Leaf(b) == [leaf |-> b]
Node(lo, hi) ==
    IF IsLeaf(lo) /\ IsLeaf(hi) /\ lo.leaf = hi.leaf THEN lo ELSE [lo |-> lo, hi |-> hi]

\* dir_[i]
RECURSIVE At(_, _)
At(x, i) == IF IsLeaf(x) THEN x.leaf
            ELSE At(IF i % 2 = 0 THEN x.lo ELSE x.hi, i \div 2)
Slot(dir, i) == At(dir.tree, i)

\* the buckets the directory points to, in order of the tree's leaves
RECURSIVE LeafSeq(_)
LeafSeq(x) == IF IsLeaf(x) THEN <<x.leaf>> ELSE LeafSeq(x.lo) \o LeafSeq(x.hi)

\* A table value: [gd, nb, dir, heap]
Table == [gd |-> global_depth_, nb |-> num_buckets_, dir |-> dir_, heap |-> heap]

\* ExtendibleHashTable::IndexOf: hash & ((1 << global_depth_) - 1)
IndexOf(key, gd) == Hash(key) % Pow2(gd)

\* ExtendibleHashTable::Find
Find(t, key) == BucketFind(t.heap[Slot(t.dir, IndexOf(key, t.gd))], key)

\* (mutant of Double: global_depth_++ without the resize)
DoubleNoResize(t) == [t EXCEPT !.gd = t.gd + 1]

\* Insert, lines 80-85: global_depth_++, the vector doubles and slot i + dir_size
\* copies slot i, so a slot's bucket does not depend on the new top bit
Double(t) ==
    [t EXCEPT !.gd = t.gd + 1, !.dir.size = 2 * t.dir.size]

\* Insert, lines 94-103: walks the old bucket's items in order; an item whose index
\* under the current global depth differs from `index` goes to the new bucket and
\* is erased from the old one.  Yields <<old list, new bucket>>.
RECURSIVE Redistribute(_, _, _, _, _, _)
Redistribute(items, i, index, gd, nb, size) ==
    IF i > Len(items) THEN <<<<>>, nb>>
    ELSE LET it == items[i]
             moved == IndexOf(it[1], gd) # index
             nb2 == IF moved THEN BucketInsert(nb, it[1], it[2], size).b ELSE nb
             rest == Redistribute(items, i + 1, index, gd, nb2, size)
         IN  <<(IF moved THEN <<>> ELSE <<it>>) \o rest[1], rest[2]>>

\* every slot of x that holds `old` holds `new` instead
RECURSIVE Subst(_, _, _)
Subst(x, old, new) ==
    IF IsLeaf(x) THEN (IF x.leaf = old THEN Leaf(new) ELSE x)
    ELSE Node(Subst(x.lo, old, new), Subst(x.hi, old, new))

\* x with the slots that hold `old` and have bit b set (b counted from x's level)
\* pointed at `new`
RECURSIVE RepointBit(_, _, _, _)
RepointBit(x, old, new, b) ==
    IF b = 0
    THEN IF IsLeaf(x) THEN (IF x.leaf = old THEN Node(Leaf(old), Leaf(new)) ELSE x)
         ELSE Node(x.lo, Subst(x.hi, old, new))
    ELSE IF IsLeaf(x)
         THEN IF x.leaf = old
              THEN LET y == RepointBit(x, old, new, b - 1) IN Node(y, y)
              ELSE x
         ELSE Node(RepointBit(x.lo, old, new, b - 1), RepointBit(x.hi, old, new, b - 1))

\* (mutant of Repoint: the test of the slot index's bit is dropped)
RepointAll(dir, old, new, depth) == [dir EXCEPT !.tree = Subst(dir.tree, old, new)]

\* (mutant of Repoint: no slot is pointed at the new bucket)
RepointNone(dir, old, new, depth) == dir

\* Insert, lines 106-111: for (i < dir_.size()) if (dir_[i] == old_bucket &&
\* (i & (1 << (depth - 1)))) dir_[i] = new_bucket
Repoint(dir, old, new, depth) ==
    IF Pow2(depth - 1) >= dir.size THEN dir      \* no slot index has that bit
    ELSE [dir EXCEPT !.tree = RepointBit(dir.tree, old, new, depth - 1)]

\* (mutant of Split: the split is not counted in num_buckets_)
SplitUncounted(t, index, old, size) ==
    LET depth == t.heap[old].depth_ + 1
        new == Len(t.heap) + 1
        r == Redistribute(t.heap[old].list_, 1, index, t.gd, NewBucket(depth), size)
        h2 == Append([t.heap EXCEPT ![old] = [depth_ |-> depth, list_ |-> r[1]]], r[2])
    IN  [t EXCEPT !.heap = h2,
                  !.dir = Repoint(t.dir, old, new, depth)]

\* Insert, lines 88-111: one split of bucket `old` (reached through slot `index`)
Split(t, index, old, size) ==
    LET depth == t.heap[old].depth_ + 1                    \* IncrementDepth
        new == Len(t.heap) + 1                             \* make_shared<Bucket>
        r == Redistribute(t.heap[old].list_, 1, index, t.gd, NewBucket(depth), size)
        h2 == Append([t.heap EXCEPT ![old] = [depth_ |-> depth, list_ |-> r[1]]], r[2])
    IN  [t EXCEPT !.nb = t.nb + 1,
                  !.heap = h2,
                  !.dir = Repoint(t.dir, old, new, depth)]

\* (mutant of InsertLoop: the overflow error is thrown one doubling early)
RECURSIVE InsertLoopEarlyCap(_, _, _, _)
InsertLoopEarlyCap(t, key, value, size) ==
    LET index == IndexOf(key, t.gd)
        bucket == Slot(t.dir, index)
        r == BucketInsert(t.heap[bucket], key, value, size)
    IN  IF r.ok THEN [t |-> [t EXCEPT !.heap[bucket] = r.b], overflow |-> FALSE]
        ELSE IF t.heap[bucket].depth_ = t.gd /\ t.gd >= kMaxGlobalDepth - 1
             THEN [t |-> t, overflow |-> TRUE]
        ELSE LET t2 == IF t.heap[bucket].depth_ = t.gd THEN Double(t) ELSE t
             IN  InsertLoopEarlyCap(Split(t2, index, bucket, size), key, value, size)

\* Insert, lines 66-112: the retry loop.  Yields the table it leaves and whether it
\* ended by throwing std::overflow_error.
RECURSIVE InsertLoop(_, _, _, _)
InsertLoop(t, key, value, size) ==
    LET index == IndexOf(key, t.gd)
        bucket == Slot(t.dir, index)
        r == BucketInsert(t.heap[bucket], key, value, size)
    IN  IF r.ok THEN [t |-> [t EXCEPT !.heap[bucket] = r.b], overflow |-> FALSE]
        ELSE IF t.heap[bucket].depth_ = t.gd /\ t.gd >= kMaxGlobalDepth
             THEN [t |-> t, overflow |-> TRUE]
        ELSE LET t2 == IF t.heap[bucket].depth_ = t.gd THEN Double(t) ELSE t
             IN  InsertLoop(Split(t2, index, bucket, size), key, value, size)

\* shared_ptr ownership: a Bucket that no directory slot points to is destroyed when
\* the call returns.  Bucket ids are renumbered in leaf order, so that two tables
\* are equal exactly when they have the same slots, sharing and bucket contents.
RECURSIVE Distinct(_, _, _)
Distinct(s, i, seen) ==
    IF i > Len(s) THEN seen
    ELSE Distinct(s, i + 1,
                  IF \E j \in 1 .. Len(seen) : seen[j] = s[i]
                  THEN seen ELSE Append(seen, s[i]))

RECURSIVE Rename(_, _)
Rename(x, live) ==
    IF IsLeaf(x) THEN Leaf(CHOOSE j \in 1 .. Len(live) : live[j] = x.leaf)
    ELSE [lo |-> Rename(x.lo, live), hi |-> Rename(x.hi, live)]

Release(t) ==
    LET live == Distinct(LeafSeq(t.dir.tree), 1, <<>>)
    IN  [t EXCEPT !.dir.tree = Rename(t.dir.tree, live),
                  !.heap = [j \in 1 .. Len(live) |-> t.heap[live[j]]]]

\* ExtendibleHashTable::ExtendibleHashTable(bucket_size)
HashInit ==
    /\ bucket_size_ \in 1 .. MaxBucketSize
    /\ global_depth_ = 0
    /\ num_buckets_ = 1
    /\ heap = <<NewBucket(0)>>
    /\ dir_ = [size |-> 1, tree |-> Leaf(1)]
    /\ ret = [op |-> "new", key |-> 0, ok |-> TRUE]
    /\ expected = [k \in SmallKeys \cup FarKeys |-> None]
    /\ fresh = TRUE

\* ExtendibleHashTable::Insert(key, value)   (r: the loop's outcome, t: the table left)
Insert(keys) ==
    \E key \in keys, value \in Values :
        \E r \in {InsertLoop(Table, key, value, bucket_size_)} :
            \E t \in {Release(r.t)} :
                /\ global_depth_' = t.gd
                /\ num_buckets_' = t.nb
                /\ dir_' = t.dir
                /\ heap' = t.heap
                /\ ret' = [op |-> "Insert", key |-> key, ok |-> ~r.overflow]
                /\ expected' = IF r.overflow THEN expected
                               ELSE [expected EXCEPT ![key] = value]
                /\ fresh' = (fresh /\ expected[key] = None /\ ~r.overflow)
                /\ UNCHANGED <<bucket_size_, lvars, tvars>>

\* ExtendibleHashTable::Remove(key)
Remove(keys) ==
    \E key \in keys :
        LET bucket == Slot(dir_, IndexOf(key, global_depth_))
            r == BucketRemove(heap[bucket], key)
        IN  /\ heap' = [heap EXCEPT ![bucket] = r.b]
            /\ ret' = [op |-> "Remove", key |-> key, ok |-> r.ok]
            /\ expected' = [expected EXCEPT ![key] = None]
            /\ fresh' = FALSE
            /\ UNCHANGED <<global_depth_, bucket_size_, num_buckets_, dir_, lvars, tvars>>

\* ExtendibleHashTable::Find(key, value)
FindCall(keys) ==
    \E key \in keys :
        LET v == Find(Table, key)
        IN  /\ ret' = [op |-> "Find", key |-> key, ok |-> v # None]
            /\ fresh' = FALSE
            /\ UNCHANGED <<global_depth_, bucket_size_, num_buckets_, dir_, heap, expected,
                           lvars, tvars>>

\* Calls with small keys: no two of them agree in their low kMaxGlobalDepth bits
\* ------------------------------------------------------------ LRUKReplacer
\* size_t counters are kept as the representative nearest 0 of their value modulo
\* 2^64 (-1 stands for 2^64 - 1): ++, -- and == are exact on it, and they are the
\* only operations the code applies to max_size_ and curr_size_.
FrameIds == 0 .. MaxFrames + 1

\* The replacer as a value
Replacer ==
    [ts |-> current_timestamp_, curr |-> curr_size_, max |-> max_size_,
     cnt |-> recorded_cnt_, hist |-> hist, ev |-> evictable_,
     newf |-> new_frame_, newl |-> new_locate_,
     cachef |-> cache_frame_, cachel |-> cache_locate_]

\* std::list::remove(frame) / erase(iterator to frame): the list without that frame
Without(list, frame) == SelectSeq(list, LAMBDA x : x # frame)
WithoutEntry(list, frame) == SelectSeq(list, LAMBDA e : e[1] # frame)

\* LRUKReplacer::Size
Size(r) == r.curr

\* LRUKReplacer::CmpTimestamp
CmpTimestamp(f1, f2) == f1[2] < f2[2]

\* std::upper_bound(cache_frame_.begin(), cache_frame_.end(), e, CmpTimestamp): the
\* first position whose entry e orders before (Len + 1 when there is none)
UpperBound(list, e) ==
    IF \E i \in 1 .. Len(list) : CmpTimestamp(e, list[i])
    THEN CHOOSE i \in 1 .. Len(list) :
             /\ CmpTimestamp(e, list[i])
             /\ \A j \in 1 .. i - 1 : ~CmpTimestamp(e, list[j])
    ELSE Len(list) + 1

\* std::list::insert(it, e)
InsertAt(list, p, e) ==
    [i \in 1 .. Len(list) + 1 |->
        IF i < p THEN list[i] ELSE IF i = p THEN e ELSE list[i - 1]]

\* (mutant of ScanNew: the scan takes the first evictable frame from the front)
ScanNewFromFront(list, i, ev) ==
    IF \E j \in 1 .. Len(list) : ev[list[j]]
    THEN list[CHOOSE j \in 1 .. Len(list) :
                  ev[list[j]] /\ \A h \in 1 .. j - 1 : ~ev[list[h]]]
    ELSE -1

\* Evict, lines 19-30: the evictable frame nearest the back of new_frame_ (0 - 1
\* when there is none)
RECURSIVE ScanNew(_, _, _)
ScanNew(list, i, ev) ==
    IF i = 0 THEN -1
    ELSE IF ev[list[i]] THEN list[i] ELSE ScanNew(list, i - 1, ev)

\* Evict, lines 33-44: the evictable frame nearest the front of cache_frame_
RECURSIVE ScanCache(_, _, _)
ScanCache(list, i, ev) ==
    IF i > Len(list) THEN -1
    ELSE IF ev[list[i][1]] THEN list[i][1] ELSE ScanCache(list, i + 1, ev)

\* (mutant of EvictLocked: the victim's history is not cleared)
EvictKeepsHistory(r) ==
    LET n == ScanNew(r.newf, Len(r.newf), r.ev)
        c == ScanCache(r.cachef, 1, r.ev)
        v == IF n # -1 THEN n ELSE c
    IN  IF Size(r) = 0 \/ v = -1 THEN [r |-> r, ok |-> FALSE, frame |-> -1]
        ELSE [r |-> [r EXCEPT !.cnt[v] = 0,
                              !.newl = r.newl \ {v},
                              !.newf = Without(r.newf, v),
                              !.cachef = WithoutEntry(r.cachef, v),
                              !.cachel = r.cachel \ {v},
                              !.curr = r.curr - 1],
              ok |-> TRUE, frame |-> v]

\* Evict, lines 14-47, with latch_ held: [r, ok, frame]
EvictLocked(r) ==
    LET n == ScanNew(r.newf, Len(r.newf), r.ev)
        c == ScanCache(r.cachef, 1, r.ev)
    IN  IF Size(r) = 0 THEN [r |-> r, ok |-> FALSE, frame |-> -1]
        ELSE IF n # -1
        THEN [r |-> [r EXCEPT !.cnt[n] = 0,
                              !.newl = r.newl \ {n},
                              !.newf = Without(r.newf, n),
                              !.curr = r.curr - 1,
                              !.hist[n] = <<>>],
              ok |-> TRUE, frame |-> n]
        ELSE IF c # -1
        THEN [r |-> [r EXCEPT !.cnt[c] = 0,
                              !.cachef = WithoutEntry(r.cachef, c),
                              !.cachel = r.cachel \ {c},
                              !.curr = r.curr - 1,
                              !.hist[c] = <<>>],
              ok |-> TRUE, frame |-> c]
        ELSE [r |-> r, ok |-> FALSE, frame |-> -1]

\* RecordAccess, lines 60-63: the clock ticks, the count grows, the tick is recorded
Tick(r, id) ==
    [r EXCEPT !.ts = r.ts + 1,
              !.cnt[id] = r.cnt[id] + 1,
              !.hist[id] = Append(r.hist[id], r.ts + 1)]

\* (mutant of Track: curr_size_ is not incremented)
TrackNoCount(r, id) ==
    [r EXCEPT !.ev[id] = TRUE,
              !.newf = <<id>> \o r.newf,
              !.newl = r.newl \cup {id}]

\* RecordAccess, lines 72-75: the frame enters the below-K queue at its head
Track(r, id) ==
    [r EXCEPT !.ev[id] = TRUE,
              !.curr = r.curr + 1,
              !.newf = <<id>> \o r.newf,
              !.newl = r.newl \cup {id}]

\* (mutant of Promote: the frame is not taken out of new_frame_)
PromoteKeepsNew(r, id) ==
    LET e == <<id, Head(r.hist[id])>>
    IN  [r EXCEPT !.cachef = InsertAt(r.cachef, UpperBound(r.cachef, e), e),
                  !.cachel = r.cachel \cup {id}]

\* RecordAccess, lines 79-88: on the k_-th access the frame leaves new_frame_ and
\* enters cache_frame_ at the place of hist.front()
Promote(r, id) ==
    LET e == <<id, Head(r.hist[id])>>
    IN  [r EXCEPT !.newf = Without(r.newf, id),
                  !.newl = r.newl \ {id},
                  !.cachef = InsertAt(r.cachef, UpperBound(r.cachef, e), e),
                  !.cachel = r.cachel \cup {id}]

\* (mutant of Reposition: the oldest tick is dropped, the queue entry stays as it is)
RepositionStale(r, id) == [r EXCEPT !.hist[id] = Tail(r.hist[id])]

\* RecordAccess, lines 92-101: past k_ accesses the oldest tick is dropped and the
\* frame is put back at the place of the new hist.front()
Reposition(r, id) ==
    LET h == Tail(r.hist[id])
        rest == WithoutEntry(r.cachef, id)
        e == <<id, Head(h)>>
    IN  [r EXCEPT !.hist[id] = h,
                  !.cachef = InsertAt(rest, UpperBound(rest, e), e),
                  !.cachel = r.cachel \cup {id}]

\* RecordAccess, lines 78-103
Requeue(r, id, k) ==
    IF r.cnt[id] = k THEN Promote(r, id)
    ELSE IF r.cnt[id] > k THEN Reposition(r, id)
    ELSE r

\* RecordAccess, line 55: frame_id > static_cast<frame_id_t>(replacer_size_)
AccessInvalid(id, size) == id > size

\* Remove, line 134
RemoveInvalid(id, size) == id > size

\* RecordAccess, line 68: the first access finds the replacer at its ceiling
MustEvict(r, id) == r.cnt[id] = 0 /\ r.curr = r.max

\* (mutant of SetEvictableLocked: the flag is set, the counters are not adjusted)
SetEvictableNoCount(r, id, flag) ==
    IF r.cnt[id] = 0 THEN r ELSE [r EXCEPT !.ev[id] = flag]

\* SetEvictable, lines 111-126
SetEvictableLocked(r, id, flag) ==
    IF r.cnt[id] = 0 THEN r
    ELSE LET status == r.ev[id]
             d == IF status /\ ~flag THEN -1 ELSE IF ~status /\ flag THEN 1 ELSE 0
         IN  [r EXCEPT !.ev[id] = flag, !.max = r.max + d, !.curr = r.curr + d]

\* (mutant of RemoveLocked: the frame leaves its queue, curr_size_ is not decremented)
RemoveKeepsSize(r, id, k) ==
    [r EXCEPT !.newf = Without(r.newf, id),
              !.newl = r.newl \ {id},
              !.cachef = WithoutEntry(r.cachef, id),
              !.cachel = r.cachel \ {id},
              !.cnt[id] = 0,
              !.hist[id] = <<>>]

\* Remove, lines 148-160
RemoveLocked(r, id, k) ==
    IF r.cnt[id] < k
    THEN [r EXCEPT !.newf = Without(r.newf, id),
                   !.newl = r.newl \ {id},
                   !.cnt[id] = 0,
                   !.hist[id] = <<>>,
                   !.curr = r.curr - 1]
    ELSE [r EXCEPT !.cachef = WithoutEntry(r.cachef, id),
                   !.cachel = r.cachel \ {id},
                   !.cnt[id] = 0,
                   !.hist[id] = <<>>,
                   !.curr = r.curr - 1]

\* the replacer's fields take the values of r
Becomes(r) ==
    /\ current_timestamp_' = r.ts
    /\ curr_size_' = r.curr
    /\ max_size_' = r.max
    /\ recorded_cnt_' = r.cnt
    /\ hist' = r.hist
    /\ evictable_' = r.ev
    /\ new_frame_' = r.newf
    /\ new_locate_' = r.newl
    /\ cache_frame_' = r.cachef
    /\ cache_locate_' = r.cachel

Result(op, id, res, out, relock) ==
    [op |-> op, id |-> id, res |-> res, out |-> out, relock |-> relock]

Threads == 1 .. MaxThreads

\* LRUKReplacer::LRUKReplacer(num_frames, k); the members the constructor does not
\* set take their in-class initializers (see DefaultMembers)
DefaultMembers ==
    /\ current_timestamp_ = 0
    /\ curr_size_ = 0
    /\ latch_ = "free"

LruInit ==
    /\ replacer_size_ \in 1 .. MaxFrames
    /\ k_ \in 1 .. MaxK
    /\ max_size_ = replacer_size_
    /\ DefaultMembers
    /\ recorded_cnt_ = [f \in FrameIds |-> 0]
    /\ hist = [f \in FrameIds |-> <<>>]
    /\ evictable_ = [f \in FrameIds |-> FALSE]
    /\ new_frame_ = <<>>
    /\ new_locate_ = {}
    /\ cache_frame_ = <<>>
    /\ cache_locate_ = {}
    /\ lret = Result("new", 0, "ok", -1, FALSE)
    /\ pc = [t \in Threads |-> "idle"]
    /\ sret = -1

\* the replacer's mutable members
ReplacerState == <<max_size_, curr_size_, current_timestamp_, recorded_cnt_, hist,
                   evictable_, new_frame_, new_locate_, cache_frame_, cache_locate_>>

\* the frame ids the calls are made with: in range, at the range's end, beyond it
CallIds == 0 .. replacer_size_ + 1

\* std::lock_guard<std::mutex> lock(latch_): a call starts when it gets the latch
Acquire == latch_ = "free"

\* RecordAccess with an id the check rejects: throws, nothing else happens
RecordAccessThrow ==
    \E id \in CallIds :
        /\ Acquire
        /\ AccessInvalid(id, replacer_size_)
        /\ lret' = Result("RecordAccess", id, "throw", -1, FALSE)
        /\ UNCHANGED <<replacer_size_, k_, max_size_, curr_size_, current_timestamp_,
                       recorded_cnt_, hist, evictable_, new_frame_, new_locate_,
                       cache_frame_, cache_locate_, latch_, hvars, tvars>>

\* RecordAccess that never calls Evict
RecordAccessPlain ==
    \E id \in CallIds :
        /\ Acquire
        /\ current_timestamp_ < MaxTime
        /\ ~AccessInvalid(id, replacer_size_)
        /\ ~MustEvict(Replacer, id)
        /\ \E r \in {Tick(Replacer, id)} :
               Becomes(Requeue(IF r.cnt[id] = 1 THEN Track(r, id) ELSE r, id, k_))
        /\ lret' = Result("RecordAccess", id, "ok", -1, FALSE)
        /\ UNCHANGED <<replacer_size_, k_, latch_, hvars, tvars>>

\* RecordAccess whose first access finds curr_size_ == max_size_: line 70 calls
\* Evict, whose lock_guard (line 11) locks latch_ while this thread holds it.
\* Locking a std::mutex the thread owns is undefined; builds of this code show two
\* outcomes.  Where the mutex is a live pthread mutex the thread waits for itself,
\* lines 72-103 are never reached and the latch is never released:
RecordAccessBlocks ==
    \E id \in CallIds :
        /\ Acquire
        /\ current_timestamp_ < MaxTime
        /\ ~AccessInvalid(id, replacer_size_)
        /\ MustEvict(Replacer, id)
        /\ Becomes(Tick(Replacer, id))
        /\ latch_' = "held"
        /\ lret' = Result("RecordAccess", id, "blocked", -1, TRUE)
        /\ UNCHANGED <<replacer_size_, k_, hvars, tvars>>

\* ... and where the program runs single-threaded without active thread support
\* (libstdc++ then makes std::mutex::lock a no-op) the inner Evict runs, lines
\* 72-103 follow and the call returns:
RecordAccessReenters ==
    \E id \in CallIds :
        /\ Acquire
        /\ current_timestamp_ < MaxTime
        /\ ~AccessInvalid(id, replacer_size_)
        /\ MustEvict(Replacer, id)
        /\ \E e \in {EvictLocked(Tick(Replacer, id))} :
               /\ Becomes(Requeue(Track(e.r, id), id, k_))
               /\ lret' = Result("RecordAccess", id, "ok", e.frame, TRUE)
        /\ UNCHANGED <<replacer_size_, k_, latch_, hvars, tvars>>

\* LRUKReplacer::Evict(frame_id)
Evict ==
    /\ Acquire
    /\ \E e \in {EvictLocked(Replacer)} :
           /\ Becomes(e.r)
           /\ lret' = Result("Evict", -1, IF e.ok THEN "true" ELSE "false", e.frame, FALSE)
    /\ UNCHANGED <<replacer_size_, k_, latch_, hvars, tvars>>

\* LRUKReplacer::SetEvictable(frame_id, set_evictable)
SetEvictable ==
    \E id \in CallIds, flag \in BOOLEAN :
        /\ Acquire
        /\ Becomes(SetEvictableLocked(Replacer, id, flag))
        /\ lret' = Result("SetEvictable", id, "ok", IF flag THEN 1 ELSE 0, FALSE)
        /\ UNCHANGED <<replacer_size_, k_, latch_, hvars, tvars>>

\* LRUKReplacer::Remove(frame_id)
RemoveFrame ==
    \E id \in CallIds :
        /\ Acquire
        /\ IF RemoveInvalid(id, replacer_size_)
               \/ (recorded_cnt_[id] # 0 /\ ~evictable_[id])
           THEN /\ lret' = Result("Remove", id, "throw", -1, FALSE)
                /\ Becomes(Replacer)
           ELSE /\ lret' = Result("Remove", id, "ok", -1, FALSE)
                /\ Becomes(IF recorded_cnt_[id] = 0 THEN Replacer
                           ELSE RemoveLocked(Replacer, id, k_))
        /\ UNCHANGED <<replacer_size_, k_, latch_, hvars, tvars>>

\* ----------------------------------------------------------- specifications
vars == <<hvars, lvars, tvars>>

\* the component a specification does not exercise stays as constructed
HashParked == HashInit /\ bucket_size_ = 1
LruParked == LruInit /\ replacer_size_ = 1 /\ k_ = 1

\* Calls with small keys: no two of them agree in their low kMaxGlobalDepth bits
NextHash ==
    \/ Insert(SmallKeys)
    \/ Remove(SmallKeys)
    \/ FindCall(SmallKeys)

InitHash == HashInit /\ LruParked

SpecHash == InitHash /\ [][NextHash]_vars

\* Calls that can saturate the directory: keys 0 and 1 and the far keys
CapKeys == {0, 1} \cup FarKeys

NextCap ==
    \/ Insert(CapKeys)
    \/ Remove(CapKeys)
    \/ FindCall(CapKeys)

SpecCap == InitHash /\ [][NextCap]_vars

NextLRU ==
    \/ RecordAccessThrow
    \/ RecordAccessPlain
    \/ RecordAccessBlocks
    \/ RecordAccessReenters
    \/ Evict
    \/ SetEvictable
    \/ RemoveFrame

InitLRU == LruInit /\ HashParked

SpecLRU == InitLRU /\ [][NextLRU]_vars

\* ------------------------------------------- the replacer called by threads
\* What a call does between its lock_guard and its return, as a value:
\* [r: the replacer left, res, out].  (RecordAccess's call of Evict is RelockStep.)
CallOutcome(r, op, id, flag, size, k) ==
    CASE op = "RecordAccess" ->
            IF AccessInvalid(id, size) THEN [r |-> r, res |-> "throw", out |-> -1]
            ELSE LET x == Tick(r, id)
                 IN  [r |-> Requeue(IF x.cnt[id] = 1 THEN Track(x, id) ELSE x, id, k),
                      res |-> "ok", out |-> -1]
      [] op = "Evict" ->
            LET e == EvictLocked(r)
            IN  [r |-> e.r, res |-> IF e.ok THEN "true" ELSE "false", out |-> e.frame]
      [] op = "SetEvictable" ->
            [r |-> SetEvictableLocked(r, id, flag), res |-> "ok",
             out |-> IF flag THEN 1 ELSE 0]
      [] op = "Remove" ->
            IF RemoveInvalid(id, size) \/ (r.cnt[id] # 0 /\ ~r.ev[id])
            THEN [r |-> r, res |-> "throw", out |-> -1]
            ELSE [r |-> IF r.cnt[id] = 0 THEN r ELSE RemoveLocked(r, id, k),
                  res |-> "ok", out |-> -1]

\* RecordAccess(id) reaches line 70
Relocks(op, id) ==
    op = "RecordAccess" /\ ~AccessInvalid(id, replacer_size_) /\ MustEvict(Replacer, id)

\* std::lock_guard<std::mutex> lock(latch_) at the head of Evict, RecordAccess,
\* SetEvictable and Remove (lines 11, 52, 108, 131): the thread waits for the latch
LockStep(t) ==
    /\ pc[t] = "idle"
    /\ latch_ = "free"
    /\ latch_' = "held"
    /\ pc' = [pc EXCEPT ![t] = "locked"]
    /\ UNCHANGED <<replacer_size_, k_, ReplacerState, lret, sret, hvars>>

\* the rest of the call, up to the lock_guard's destructor
BodyStep(t) ==
    /\ pc[t] = "locked"
    /\ \E op \in {"RecordAccess", "Evict", "SetEvictable", "Remove"},
          id \in CallIds, flag \in BOOLEAN :
           /\ ~Relocks(op, id)
           /\ op = "RecordAccess" => current_timestamp_ < MaxTime
           /\ op = "Evict" => id = 0 /\ flag
           /\ op \in {"RecordAccess", "Remove"} => flag
           /\ \E o \in {CallOutcome(Replacer, op, id, flag, replacer_size_, k_)} :
                  /\ Becomes(o.r)
                  /\ lret' = Result(op, IF op = "Evict" THEN -1 ELSE id, o.res, o.out, FALSE)
    /\ latch_' = "free"
    /\ pc' = [pc EXCEPT ![t] = "idle"]
    /\ UNCHANGED <<replacer_size_, k_, sret, hvars>>

\* RecordAccess up to its call of Evict (line 70): Evict's lock_guard waits for the
\* latch this thread holds, for ever
RelockStep(t) ==
    /\ pc[t] = "locked"
    /\ \E id \in CallIds :
           /\ Relocks("RecordAccess", id)
           /\ current_timestamp_ < MaxTime
           /\ Becomes(Tick(Replacer, id))
           /\ lret' = Result("RecordAccess", id, "blocked", -1, TRUE)
    /\ pc' = [pc EXCEPT ![t] = "relock"]
    /\ UNCHANGED <<replacer_size_, k_, latch_, sret, hvars>>

\* LRUKReplacer::Size (lines 164-166) takes no lock: a thread enters it whatever the
\* latch's state ...
SizeEnter(t) ==
    /\ pc[t] = "idle"
    /\ pc' = [pc EXCEPT ![t] = "size"]
    /\ UNCHANGED <<lvars, sret, hvars>>

\* ... and returns the curr_size_ it reads.  The read is one word: it sees the value
\* before or after the other thread's update, as the interleaving has it.
SizeReturn(t) ==
    /\ pc[t] = "size"
    /\ sret' = curr_size_
    /\ pc' = [pc EXCEPT ![t] = "idle"]
    /\ UNCHANGED <<lvars, hvars>>

NextRace ==
    \E t \in Threads :
        \/ LockStep(t)
        \/ BodyStep(t)
        \/ RelockStep(t)
        \/ SizeEnter(t)
        \/ SizeReturn(t)

InitRace == LruInit /\ HashParked

SpecRace == InitRace /\ [][NextRace]_vars

\* ------------------------------------------------- hash index: the claims
AllKeys == DOMAIN expected
Inserted == {k \in AllKeys : expected[k] # None}
\* the buckets some directory slot points to
Referenced == {LeafSeq(dir_.tree)[i] : i \in 1 .. Len(LeafSeq(dir_.tree))}
Structure == <<global_depth_, num_buckets_, dir_, [b \in DOMAIN heap |-> heap[b].depth_]>>

\* C1: find(k) returns the value of k's last insert when no remove of k followed it,
\* and not-found when k's last call was remove (or k was never inserted).
C1_RoundTrip == \A k \in AllKeys : Find(Table, k) = expected[k]

\* C2: an insert that ends with the overflow error leaves global depth, directory,
\* bucket count, local depths and bucket contents as they were when it started.
C2_OverflowChangesNothing ==
    [][(ret'.op = "Insert" /\ ~ret'.ok)
        => UNCHANGED <<global_depth_, num_buckets_, dir_, heap>>]_hvars

\* C3: the directory length is 2^global_depth and every bucket the directory points
\* to has local depth <= global depth.
C3_DirectoryInvariant ==
    /\ dir_.size = Pow2(global_depth_)
    /\ \A b \in Referenced : heap[b].depth_ <= global_depth_

\* a directory that has doubled twice and holds a bucket below the global depth
C3_Witness ==
    /\ global_depth_ >= 2
    /\ num_buckets_ >= 3
    /\ \E b \in Referenced : heap[b].depth_ < global_depth_

\* The case of C4: a fresh table took bucket_size + 1 inserts of distinct keys, and
\* the keys' hashes do not all agree in the lowest bit.
C4_Case ==
    /\ fresh
    /\ Cardinality(Inserted) = bucket_size_ + 1
    /\ \E k1, k2 \in Inserted : Hash(k1) % 2 # Hash(k2) % 2

C4_OneSplit ==
    /\ num_buckets_ = 2
    /\ global_depth_ = 1
    /\ \A k \in Inserted : Find(Table, k) = expected[k]

\* C4 as claimed: exactly one split, every key found, both buckets non-full.
C4_SplitLeavesRoom ==
    C4_Case => /\ C4_OneSplit
               /\ \A b \in Referenced : ~IsFull(heap[b], bucket_size_)

\* C4 as amended: exactly one split, every key found, and the two buckets share the
\* bucket_size + 1 keys, each holding at least one and at most bucket_size of them.
C4_SplitCorrect ==
    C4_Case => /\ C4_OneSplit
               /\ Cardinality(Referenced) = 2
               /\ \A b \in Referenced :
                      Len(heap[b].list_) \in 1 .. bucket_size_
               /\ \A k \in Inserted : \E b \in Referenced : BucketFind(heap[b], k) # None

\* the case of C4 on a table of bucket size 2, one of whose buckets came out full
C4_Witness ==
    /\ C4_Case
    /\ bucket_size_ = 2
    /\ \E b \in Referenced : IsFull(heap[b], bucket_size_)

\* C5: insert(k, v2) of a key inserted earlier and not removed since only replaces
\* k's value: global depth, directory, bucket count, local depths and every other
\* entry stay as they are.
C5_UpdateInPlace ==
    [][(ret'.op = "Insert" /\ expected[ret'.key] # None)
        => /\ UNCHANGED Structure
           /\ \A b \in DOMAIN heap :
                  /\ Len(heap'[b].list_) = Len(heap[b].list_)
                  /\ \A i \in 1 .. Len(heap[b].list_) :
                         heap'[b].list_[i] =
                             IF heap[b].list_[i][1] = ret'.key
                             THEN <<ret'.key, expected'[ret'.key]>>
                             ELSE heap[b].list_[i]]_hvars
\* --------------------------------------------------- replacer: the claims
InNew(f) == \E i \in 1 .. Len(new_frame_) : new_frame_[i] = f
InCache(f) == \E i \in 1 .. Len(cache_frame_) : cache_frame_[i][1] = f

\* C6: record_access never tries to take the replacer's lock while it holds it, and
\* every record_access call ends with the lock released.
C6_NoSelfDeadlock == ~lret.relock /\ latch_ = "free"

\* C7: record_access(id) and remove(id) with id >= the configured number of frames
\* (id equal to it included) report a failure and change no replacer state.
C7_OutOfRangeRejected ==
    [][(lret'.op \in {"RecordAccess", "Remove"} /\ lret'.id >= replacer_size_)
        => (lret'.res = "throw" /\ UNCHANGED ReplacerState)]_lvars

\* the evictable frames with 1..K-1 accesses, and those with >= K accesses
BelowK == {f \in FrameIds : evictable_[f] /\ recorded_cnt_[f] \in 1 .. k_ - 1}
AtLeastK == {f \in FrameIds : evictable_[f] /\ recorded_cnt_[f] >= k_}
FirstAccess(f) == hist[f][1]
\* the tick of f's K-th most recent access
KthRecent(f) == hist[f][Len(hist[f]) - k_ + 1]

\* C8: a successful evict() returns the evictable below-K frame that was first
\* accessed earliest when there is one, and otherwise the evictable frame whose
\* K-th most recent access is the oldest.
C8_EvictionOrder ==
    [][(lret'.op = "Evict" /\ lret'.res = "true")
        => IF BelowK # {}
           THEN /\ lret'.out \in BelowK
                /\ \A g \in BelowK : FirstAccess(lret'.out) <= FirstAccess(g)
           ELSE /\ lret'.out \in AtLeastK
                /\ \A g \in AtLeastK : KthRecent(lret'.out) <= KthRecent(g)]_lvars

\* evict() has just returned a frame and left behind another evictable frame and a
\* frame with >= K accesses
C8_Witness ==
    /\ lret.op = "Evict" /\ lret.res = "true"
    /\ curr_size_ >= 1
    /\ cache_frame_ # <<>>
    /\ k_ = 2

\* C9: between calls every frame is untracked (count 0, in no queue), or in the
\* below-K queue alone with a count in 1..K-1, or in the at/above-K queue alone with
\* a count >= K; and no call moves a frame from the at/above-K queue to the below-K
\* queue.
C9_Membership ==
    \A f \in FrameIds :
        /\ InNew(f) <=> recorded_cnt_[f] \in 1 .. k_ - 1
        /\ InCache(f) <=> recorded_cnt_[f] >= k_
        /\ Len(SelectSeq(new_frame_, LAMBDA x : x = f)) <= 1
        /\ Len(SelectSeq(cache_frame_, LAMBDA e : e[1] = f)) <= 1

C9_QueueFollowsCount ==
    /\ [](latch_ = "free" => C9_Membership)
    /\ [][\A f \in FrameIds : InCache(f) => ~InNew(f)']_lvars

\* a frame has reached K = 2 accesses while another is still below K
C9_Witness ==
    /\ k_ = 2
    /\ new_frame_ # <<>>
    /\ cache_frame_ # <<>>

\* C10: set_evictable(id, false) on a tracked evictable frame lowers size() by 1,
\* set_evictable(id, true) on a tracked non-evictable frame raises it by 1, a call
\* that repeats the flag or names a never-accessed frame changes nothing, and evict()
\* only ever returns a frame whose flag is true.
C10_SetEvictableAccounting ==
    [][/\ lret'.op = "SetEvictable" =>
            LET id == lret'.id
                flag == lret'.out = 1
            IN  IF recorded_cnt_[id] = 0 \/ evictable_[id] = flag
                THEN UNCHANGED ReplacerState
                ELSE /\ Size(Replacer)' = Size(Replacer) + (IF flag THEN 1 ELSE -1)
                     /\ evictable_'[id] = flag
       /\ (lret'.op = "Evict" /\ lret'.res = "true") =>
            evictable_[lret'.out] /\ recorded_cnt_[lret'.out] >= 1]_lvars

\* set_evictable(id, false) has just pinned a tracked frame: the ceiling is one below
\* the number of frames
C10_Witness ==
    /\ lret.op = "SetEvictable" /\ lret.out = 0
    /\ recorded_cnt_[lret.id] >= 1
    /\ ~evictable_[lret.id]
    /\ max_size_ = replacer_size_ - 1
\* a frame is tracked when one of the two queues holds it
Tracked(f) == InNew(f) \/ InCache(f)

\* C11: remove(id) of a never-accessed frame changes nothing (and succeeds when id
\* is below the number of frames); of a tracked non-evictable frame it reports an
\* error and changes nothing; of a tracked evictable frame it clears the frame's
\* history and count, takes it out of its queue, lowers size() by 1 and leaves every
\* other frame as it was.
C11_RemoveContract ==
    [][lret'.op = "Remove" =>
        LET id == lret'.id IN
        IF recorded_cnt_[id] = 0
        THEN /\ UNCHANGED ReplacerState
             /\ id < replacer_size_ => lret'.res = "ok"
        ELSE IF ~evictable_[id]
        THEN lret'.res = "throw" /\ UNCHANGED ReplacerState
        ELSE /\ lret'.res = "ok"
             /\ recorded_cnt_' = [recorded_cnt_ EXCEPT ![id] = 0]
             /\ hist' = [hist EXCEPT ![id] = <<>>]
             /\ new_frame_' = Without(new_frame_, id)
             /\ cache_frame_' = WithoutEntry(cache_frame_, id)
             /\ Size(Replacer)' = Size(Replacer) - 1
             /\ UNCHANGED <<evictable_, max_size_, current_timestamp_>>]_lvars

\* remove() has just taken out a frame that had been accessed, and another frame is
\* still tracked
C11_Witness ==
    /\ lret.op = "Remove" /\ lret.res = "ok"
    /\ recorded_cnt_[lret.id] = 0
    /\ evictable_[lret.id]
    /\ ~Tracked(lret.id)
    /\ \E g \in FrameIds : Tracked(g)
    /\ curr_size_ = 1

\* C12: between calls size() is the number of frames that are in one of the two
\* queues and whose evictable flag is true.
C12_SizeIsEvictableCount ==
    latch_ = "free" =>
        Size(Replacer) = Cardinality({f \in FrameIds : Tracked(f) /\ evictable_[f]})

\* two frames are tracked, one of them pinned, and a call has lowered the count
C12_Witness ==
    /\ latch_ = "free"
    /\ \E f, g \in FrameIds : /\ Tracked(f) /\ evictable_[f]
                              /\ Tracked(g) /\ ~evictable_[g]
    /\ curr_size_ = 1
\* C13: a thread reads or writes the replacer's state only while it holds latch_:
\* no thread is inside Size() reading curr_size_ while another thread is between the
\* lock and the unlock of a mutating call.
C13_Serialized ==
    \A t, u \in Threads : ~(pc[t] = "size" /\ pc[u] = "locked")
Slots == 0 .. dir_.size - 1

\* C14: for every directory slot i, holding bucket B of local depth d, the slots
\* that hold B are exactly the slots whose low d bits equal the low d bits of i.
C14_Aliasing ==
    \A i \in Slots :
        LET B == Slot(dir_, i)
            d == heap[B].depth_
        IN  \A j \in Slots : (Slot(dir_, j) = B) <=> (j % Pow2(d) = i % Pow2(d))

\* a directory of 8 slots in which one bucket is held by two slots and another by one
C14_Witness ==
    /\ global_depth_ = 3
    /\ \E i, j \in Slots : /\ heap[Slot(dir_, i)].depth_ = 2
                           /\ heap[Slot(dir_, j)].depth_ = 3
\* C15: the retry loop of insert(key, value) ends after at most kMaxGlobalDepth
\* splits, either with the pair stored (find(key) returns value) or with the overflow
\* error, and then the global depth is at its maximum.
C15_InsertTerminates ==
    /\ [][ret'.op = "Insert" =>
            num_buckets_' - num_buckets_ \in 0 .. kMaxGlobalDepth]_hvars
    /\ [](ret.op = "Insert" =>
            IF ret.ok
            THEN expected[ret.key] # None /\ Find(Table, ret.key) = expected[ret.key]
            ELSE global_depth_ = kMaxGlobalDepth)

\* an insert has ended with the overflow error after splitting all the way to the cap
C15_Witness ==
    /\ ret.op = "Insert" /\ ~ret.ok
    /\ global_depth_ = kMaxGlobalDepth
    /\ num_buckets_ = kMaxGlobalDepth + 1
\* C16: the at/above-K queue is in ascending order of its stored timestamps, and the
\* timestamp stored for a frame is the tick of that frame's K-th most recent access.
C16_CacheOrdered ==
    /\ \A i \in 1 .. Len(cache_frame_) - 1 : cache_frame_[i][2] < cache_frame_[i + 1][2]
    /\ \A i \in 1 .. Len(cache_frame_) :
           LET f == cache_frame_[i][1]
           IN  /\ Len(hist[f]) >= k_
               /\ cache_frame_[i][2] = KthRecent(f)

\* two frames are in the at/above-K queue, the later one put back there by an access
\* past its K-th
C16_Witness ==
    /\ Len(cache_frame_) = 2
    /\ recorded_cnt_[cache_frame_[2][1]] > k_
\* C17: evict() returns false exactly when no tracked frame is evictable, and then
\* changes nothing; when it returns a frame, that frame was tracked and evictable,
\* is untracked afterwards (count 0, empty history, in neither queue), size() is one
\* smaller and every other frame's count, history, queue position and flag are as
\* they were.
C17_EvictOutcome ==
    [][lret'.op = "Evict" =>
        /\ lret'.res = "false" <=> ~\E f \in FrameIds : Tracked(f) /\ evictable_[f]
        /\ lret'.res = "false" => UNCHANGED ReplacerState
        /\ lret'.res = "true" =>
              \E v \in FrameIds :
                  /\ v = lret'.out
                  /\ Tracked(v) /\ evictable_[v]
                  /\ recorded_cnt_' = [recorded_cnt_ EXCEPT ![v] = 0]
                  /\ hist' = [hist EXCEPT ![v] = <<>>]
                  /\ new_frame_' = Without(new_frame_, v)
                  /\ cache_frame_' = WithoutEntry(cache_frame_, v)
                  /\ Size(Replacer)' = Size(Replacer) - 1
                  /\ UNCHANGED <<evictable_, max_size_, current_timestamp_>>]_lvars

\* evict() has just returned false although a frame is tracked (it is pinned)
C17_Witness ==
    /\ lret.op = "Evict" /\ lret.res = "false"
    /\ \E f \in FrameIds : Tracked(f) /\ ~evictable_[f]
\* the places <<bucket, position>> where key k is stored
Entries(k) ==
    {<<b, i>> \in Referenced \X (1 .. MaxBucketSize) :
        i <= Len(heap[b].list_) /\ heap[b].list_[i][1] = k}

\* C18: over the buckets the directory points to, every key has at most one entry,
\* and the entry is in the bucket of directory slot hash(key) & (2^global_depth - 1).
C18_StoredOnceInPlace ==
    \A k \in AllKeys :
        /\ Cardinality(Entries(k)) <= 1
        /\ \A e \in Entries(k) : e[1] = Slot(dir_, IndexOf(k, global_depth_))
\* the tracked frames whose evictable flag is false
Pinned == {f \in FrameIds : Tracked(f) /\ ~evictable_[f]}

C20_BucketCountExact ==
    /\ [](num_buckets_ = Cardinality(Referenced))
    /\ [][ret'.op \in {"Find", "Remove"} => UNCHANGED num_buckets_]_hvars

\* five buckets behind eight slots, and the last call was a remove that found its key
C20_Witness ==
    /\ num_buckets_ = 5
    /\ dir_.size = 8
    /\ ret.op = "Remove" /\ ret.ok
====
